---- MODULE Spec2Model ----
(***************************************************************************)
(* Model of the AI-WEB-Agent research agent:                               *)
(*   - ResearchAgent (research_agent.py): the recursive research() call,   *)
(*     _get_search_urls(), _extract_content(), visited_urls and results;   *)
(*   - DummyLLM.filter_content (llm_interface.py);                         *)
(*   - ProxyHandler (proxy_handler.py): proxy selection, marks, retries.   *)
(* Strings whose characters matter (page text, URLs) are sequences.        *)
(***************************************************************************)
EXTENDS Integers, Sequences, FiniteSets, TLC

VARIABLES
    \* ResearchAgent
    max_depth,      \* self.max_depth
    visited_urls,   \* self.visited_urls
    results,        \* self.results
    stack,          \* activation records of research(), innermost first
    ret,            \* value returned by the last finished top-level research()
    raised,         \* TRUE when an exception left a top-level research()
    runs,           \* number of top-level research() calls made so far
    fetchCount,     \* per URL, number of _extract_content(url) calls
    searchCount,    \* number of _get_search_urls() calls
    last,           \* the last step taken by research()
    top_call,       \* query and depth of the last top-level research() call
    \* _get_search_urls alone
    sPc, sResp, sOut,
    \* DummyLLM.filter_content alone
    fPc, fIn, fOut, fOut2,
    \* ProxyHandler
    failed_proxies, success_count, current_proxy,
    pc,             \* where make_request is: "idle", "loop", "returned", "raised"
    attempt,        \* loop variable of make_request
    max_retries,    \* argument of the make_request in progress
    response,       \* what the last make_request returned
    sel,            \* the last _get_next_proxy call: marks before, proxy chosen
    used,           \* proxies the attempts of this make_request went through
    usedSinceClear, \* those used since the marks were last cleared in this call
    delays,         \* backoff bases slept in this make_request
    \* ResearchAgent.save_results
    svPc,           \* where save_results is: "idle", "loop", "summary", "done", "raised"
    svIdx,          \* position of the loop over self.results
    summary,        \* the local summary
    documents,      \* the files of the output directory, by name
    \* DummyLLM.generate_sub_queries alone
    gPc, gQuery, gContent, gOut, gOut2

researchVars == <<max_depth, visited_urls, results, stack, ret, raised, runs,
                  fetchCount, searchCount, last, top_call>>
searchVars   == <<sPc, sResp, sOut>>
filterVars   == <<fPc, fIn, fOut, fOut2>>
proxyVars    == <<failed_proxies, success_count, current_proxy,
                  pc, attempt, max_retries, response, sel, used, usedSinceClear, delays>>
saveVars     == <<svPc, svIdx, summary, documents>>
genVars      == <<gPc, gQuery, gContent, gOut, gOut2>>
vars == <<researchVars, searchVars, filterVars, proxyVars, saveVars, genVars>>

None == "None"

Take(s, n) == SubSeq(s, 1, IF Len(s) < n THEN Len(s) ELSE n)

SeqsUpTo(S, n) == UNION {[1..k -> S] : k \in 0..n}

-----------------------------------------------------------------------------
(* DummyLLM.filter_content                                                 *)

Whitespace == {" ", "\t", "\n"}

IsSpace(c) == c \in Whitespace

\* first index >= from whose character is (ws = TRUE) / is not (ws = FALSE)
\* whitespace, Len(s) + 1 when there is none
FirstFrom(s, from, ws) ==
    IF \E i \in from..Len(s) : IsSpace(s[i]) = ws
    THEN CHOOSE i \in from..Len(s) :
            /\ IsSpace(s[i]) = ws
            /\ \A j \in from..(i - 1) : IsSpace(s[j]) # ws
    ELSE Len(s) + 1

RECURSIVE SplitFrom(_, _)
SplitFrom(s, from) ==
    LET b == FirstFrom(s, from, FALSE)
    IN  IF b > Len(s) THEN <<>>
        ELSE LET e == FirstFrom(s, b, TRUE)
             IN  <<SubSeq(s, b, e - 1)>> \o SplitFrom(s, e)

\* str.split(): the maximal runs of non-whitespace characters
Split(s) == SplitFrom(s, 1)

RECURSIVE Join(_)
\* ' '.join(words)
Join(words) ==
    IF words = <<>> THEN <<>>
    ELSE IF Len(words) = 1 THEN words[1]
    ELSE words[1] \o <<" ">> \o Join(Tail(words))

MaxContentLen == 1000

\* the filter with the whitespace normalisation left out
FilterContentNoCollapse(content) == Take(content, MaxContentLen)

FilterContent(content) == Take(Join(Split(content)), MaxContentLen)

-----------------------------------------------------------------------------
(* ResearchAgent._get_search_urls                                          *)

\* A URL is the sequence of its parts: scheme, host, then path parts.
\* An anchor without href, or with an empty one, is the empty sequence.
NoHref == <<>>

U1 == <<"http://", "a">>
U2 == <<"https://", "b">>
U3 == <<"http://", "c">>
U4 == <<"https://", "d">>
PdfUrl  == <<"http://", "e", ".pdf">>
MailUrl == <<"mailto:", "f">>
RelUrl  == <<"/", "g">>

GoodUrls == {U1, U2, U3, U4}

StartsWithHttp(url) == url[1] \in {"http://", "https://"}

Blocked == {".pdf", ".doc", "javascript:", "mailto:"}

ContainsBlocked(url) == \E i \in 1..Len(url) : url[i] \in Blocked

\* lines 61-64: the hrefs of one selector's matches that are kept
Accepted(hrefs) ==
    SelectSeq(hrefs, LAMBDA url : /\ url # NoHref
                                  /\ StartsWithHttp(url)
                                  /\ ~ContainsBlocked(url))

RECURSIVE SelectorLoop(_, _, _)
\* lines 58-67: selectors are tried in order until one has yielded URLs
SelectorLoop(links, k, urls) ==
    IF k > Len(links) THEN urls
    ELSE LET found == urls \o Accepted(links[k])
         IN  IF found # <<>> THEN found
             ELSE SelectorLoop(links, k + 1, found)

\* no deduplication
DedupKeepsAll(urls, seen) == urls

RECURSIVE Dedup(_, _)
\* list(dict.fromkeys(urls)): first occurrences, in order
Dedup(urls, seen) ==
    IF urls = <<>> THEN <<>>
    ELSE IF Head(urls) \in seen THEN Dedup(Tail(urls), seen)
    ELSE <<Head(urls)>> \o Dedup(Tail(urls), seen \cup {Head(urls)})

MaxSearchUrls == 5

\* resp.exc: requests.get (or the parsing) raised; resp.status: the HTTP
\* status; resp.links[k]: hrefs of the anchors selector k matches, in order
GetSearchUrls(resp) ==
    IF resp.exc THEN <<>>
    ELSE IF resp.status # 200 THEN <<>>
    ELSE Take(Dedup(SelectorLoop(resp.links, 1, <<>>), {}), MaxSearchUrls)

Response(exc, status, links) == [exc |-> exc, status |-> status, links |-> links]

FailedResponses == {Response(TRUE, 0, <<>>), Response(FALSE, 403, <<>>)}

-----------------------------------------------------------------------------
(* ResearchAgent.research                                                  *)

MaxDepth == 2        \* largest max_depth explored
MaxRuns == 2         \* top-level research() calls per agent

\* the result links of the pages researched, as runs of one ranking
Ranking == <<U1, U2, U3, U4>>
ResultLinks ==
    {SubSeq(Ranking, 1, 1), SubSeq(Ranking, 2, 2), SubSeq(Ranking, 1, 3), Ranking}

\* the n-th top-level query
TopQuery(n) == IF n % 2 = 1 THEN "q1" ELSE "q2"

\* what trafilatura extracts from a page that has text
RawTexts == {<<"x", " ", " ", "y">>}

\* what the search request of one research() call can come back with
ResearchResponses ==
    FailedResponses \cup
    {Response(FALSE, 200, <<l, <<>>, <<>> >>) : l \in ResultLinks}

\* _extract_content: trafilatura raised, or returned text or nothing
ExtractContent(exc, text) == IF exc THEN <<>> ELSE text

ExtractOutcomes == {<<TRUE, <<>> >>} \cup {<<FALSE, t>> : t \in RawTexts \cup {<<>>}}

EmptyNode(query) == [query |-> query, content |-> <<>>, sub_queries |-> <<>>]

Frame(query, depth) ==
    [query |-> query, depth |-> depth, pc |-> "search", urls |-> <<>>, i |-> 1,
     content |-> <<>>, generated |-> <<>>, j |-> 1, sub_results |-> <<>>,
     nskip |-> 0, nempty |-> 0, swallowed |-> {}]

\* the record kept of a step: the call it belongs to, the node that call
\* returned with it (if it returned), what the call's URL loop had seen, and
\* which helpers of the call have caught an exception of their own
Step(op, query, depth, node, f) ==
    [op |-> op, query |-> query, depth |-> depth, node |-> node,
     urls |-> f.urls, nskip |-> f.nskip, nempty |-> f.nempty,
     swallowed |-> f.swallowed]

\* a research() call returns node to the call below it: to line 141-142
\* of its parent, or to the caller of the top-level research()
ReturnTo(stk, node) ==
    IF stk = <<>> THEN [stack |-> <<>>, ret |-> <<node>>, raised |-> FALSE]
    ELSE [stack |-> <<[stk[1] EXCEPT !.sub_results = Append(@, node),
                                     !.j = @ + 1]>> \o Tail(stk),
          ret |-> ret, raised |-> raised]

\* the floor test off by one
AtFloorStrict(depth) == depth > max_depth

\* no floor at all
AtFloorNever(depth) == FALSE

\* line 95
AtFloor(depth) == depth >= max_depth

\* lines 95-98: entering research(query, depth) on top of stk
Enter(stk, query, depth) ==
    IF AtFloor(depth) THEN ReturnTo(stk, EmptyNode(query))
    ELSE [stack |-> <<Frame(query, depth)>> \o stk, ret |-> ret, raised |-> raised]

\* without the except clause the exception leaves every enclosing call
OnExceptionPropagate(stk) == [stack |-> <<>>, ret |-> ret, raised |-> TRUE]

\* lines 153-155: an exception in the innermost call is caught at its scope
OnException(stk) == ReturnTo(Tail(stk), EmptyNode(stk[1].query))

\* the visited test left out
AlreadyVisitedNever(url) == FALSE

\* line 107
AlreadyVisited(url) == url \in visited_urls

\* the emptiness test of the extracted text left out
HasTextAlways(text) == TRUE

\* line 116
HasText(text) == text # <<>>

\* the early return of line 128-130 left out
NoContentNever(content) == FALSE

\* line 128
NoContent(content) == content = <<>>

\* line 106
UrlLimit == 3
\* line 139
SubQueryLimit == 2

\* the URL loop without its limit
FirstUrlsAll(urls) == urls

\* line 106: urls[:3]
FirstUrls(urls) == Take(urls, UrlLimit)

\* generate_sub_queries returns a list of n sub-queries (the injected LLM
\* decides which; one may repeat the query of an ancestor), or raises;
\* lists of up to one more than the limit of line 139 are returned
Generated(n) == [k \in 1..n |-> IF k % 2 = 1 THEN "q2" ELSE "q1"]
GenerateOutcomes == {<<None>>} \cup {Generated(n) : n \in 0..(SubQueryLimit + 1)}

\* the node put in front of the list instead of at its end
AppendResultFirst(rs, result) == <<result>> \o rs

\* line 150: self.results.append(result)
AppendResult(rs, result) == Append(rs, result)

\* a URL marked only when its extraction yielded text
VisitedAfterIfText(visited, url, got) ==
    IF got # <<>> THEN visited \cup {url} ELSE visited

\* lines 111-115: the URL is added before the extraction, whatever it yields
VisitedAfter(visited, url, got) == visited \cup {url}

Top == stack[1]

\* the helper named, when it has caught an exception (lines 80-82, 162-164)
Caught(helper, exc) == IF exc THEN {helper} ELSE {}

\* 1 when the extraction yielded no text (counted in the frame's nempty)
Nothing(text) == IF text = <<>> THEN 1 ELSE 0

SetTop(f) == <<f>> \o Tail(stack)

Apply(r) == /\ stack' = r.stack
            /\ ret' = r.ret
            /\ raised' = r.raised

\* a top-level agent.research(query, depth) call
StartResearch(query, depth) ==
    /\ stack = <<>>
    /\ runs < MaxRuns
    /\ runs' = runs + 1
    /\ Apply(Enter(<<>>, query, depth))
    /\ last' = Step(IF AtFloor(depth) THEN "floor" ELSE "call", query, depth,
                    IF AtFloor(depth) THEN <<EmptyNode(query)>> ELSE <<>>,
                    Frame(query, depth))
    /\ top_call' = [query |-> query, depth |-> depth]
    /\ UNCHANGED <<max_depth, visited_urls, results, fetchCount, searchCount>>
    /\ UNCHANGED <<searchVars, filterVars, proxyVars, saveVars, genVars>>

\* line 103-104
SearchStep(resp) ==
    /\ stack # <<>> /\ Top.pc = "search"
    /\ searchCount' = searchCount + 1
    /\ stack' = SetTop([Top EXCEPT !.urls = GetSearchUrls(resp), !.pc = "urls",
                                   !.swallowed = @ \cup Caught("search", resp.exc)])
    /\ last' = Step("search", Top.query, Top.depth, <<>>, stack'[1])
    /\ UNCHANGED <<max_depth, visited_urls, results, ret, raised, runs, fetchCount,
                   top_call>>
    /\ UNCHANGED <<searchVars, filterVars, proxyVars, saveVars, genVars>>

\* lines 106-126: one iteration of the loop over urls[:3]
UrlStep(exc, text, filterRaises) ==
    /\ stack # <<>> /\ Top.pc = "urls"
    /\ Top.i <= Len(FirstUrls(Top.urls))
    /\ LET url == Top.urls[Top.i]
           got == ExtractContent(exc, text)
       IN  IF AlreadyVisited(url)
           THEN /\ stack' = SetTop([Top EXCEPT !.i = @ + 1, !.nskip = @ + 1])
                /\ last' = Step("skip", Top.query, Top.depth, <<>>, stack'[1])
                /\ UNCHANGED <<visited_urls, fetchCount, ret, raised>>
           ELSE /\ visited_urls' = VisitedAfter(visited_urls, url, got)
                /\ fetchCount' = [fetchCount EXCEPT ![url] = @ + 1]
                /\ IF HasText(got)
                   THEN IF filterRaises
                        THEN /\ Apply(OnException(stack))
                             /\ last' = Step("error", Top.query, Top.depth,
                                             <<EmptyNode(Top.query)>>,
                                             [Top EXCEPT !.swallowed =
                                                 @ \cup Caught("extract", exc)])
                        ELSE /\ stack' = SetTop([Top EXCEPT
                                    !.content = Append(@, [source |-> url,
                                                  content |-> FilterContent(got)]),
                                    !.i = @ + 1, !.nempty = @ + Nothing(got),
                                    !.swallowed = @ \cup Caught("extract", exc)])
                             /\ last' = Step("fetch", Top.query, Top.depth, <<>>, stack'[1])
                             /\ UNCHANGED <<ret, raised>>
                   ELSE /\ stack' = SetTop([Top EXCEPT !.i = @ + 1,
                                    !.nempty = @ + Nothing(got),
                                    !.swallowed = @ \cup Caught("extract", exc)])
                        /\ last' = Step("nothing", Top.query, Top.depth, <<>>, stack'[1])
                        /\ UNCHANGED <<ret, raised>>
    /\ UNCHANGED <<max_depth, results, runs, searchCount, top_call>>
    /\ UNCHANGED <<searchVars, filterVars, proxyVars, saveVars, genVars>>

\* lines 128-135: after the loop; generated = None: generate_sub_queries raised
GenerateStep(generated) ==
    /\ stack # <<>> /\ Top.pc = "urls"
    /\ Top.i > Len(FirstUrls(Top.urls))
    /\ IF NoContent(Top.content)
       THEN /\ Apply(ReturnTo(Tail(stack), EmptyNode(Top.query)))
            /\ last' = Step("empty", Top.query, Top.depth, <<EmptyNode(Top.query)>>,
                            Top)
       ELSE IF generated = <<None>>
       THEN /\ Apply(OnException(stack))
            /\ last' = Step("error", Top.query, Top.depth, <<EmptyNode(Top.query)>>,
                            Top)
       ELSE /\ stack' = SetTop([Top EXCEPT !.generated = generated, !.pc = "recurse"])
            /\ last' = Step("generate", Top.query, Top.depth, <<>>, Top)
            /\ UNCHANGED <<ret, raised>>
    /\ UNCHANGED <<max_depth, visited_urls, results, runs, fetchCount, searchCount,
                   top_call>>
    /\ UNCHANGED <<searchVars, filterVars, proxyVars, saveVars, genVars>>

\* lines 139-142: one iteration of the loop over sub_queries[:2]
RecurseStep ==
    /\ stack # <<>> /\ Top.pc = "recurse"
    /\ Top.j <= Len(Take(Top.generated, SubQueryLimit))
    /\ LET sub_query == Top.generated[Top.j]
       IN  /\ Apply(Enter(stack, sub_query, Top.depth + 1))
           /\ last' = Step(IF AtFloor(Top.depth + 1) THEN "floor" ELSE "call",
                           sub_query, Top.depth + 1,
                           IF AtFloor(Top.depth + 1) THEN <<EmptyNode(sub_query)>>
                           ELSE <<>>,
                           Frame(sub_query, Top.depth + 1))
    /\ UNCHANGED <<max_depth, visited_urls, results, runs, fetchCount, searchCount,
                   top_call>>
    /\ UNCHANGED <<searchVars, filterVars, proxyVars, saveVars, genVars>>

\* lines 144-151
AssembleStep ==
    /\ stack # <<>> /\ Top.pc = "recurse"
    /\ Top.j > Len(Take(Top.generated, SubQueryLimit))
    /\ LET result == [query |-> Top.query, content |-> Top.content,
                      sub_queries |-> Top.sub_results]
       IN  /\ results' = AppendResult(results, result)
           /\ Apply(ReturnTo(Tail(stack), result))
           /\ last' = Step("assemble", Top.query, Top.depth, <<result>>, Top)
    /\ UNCHANGED <<max_depth, visited_urls, runs, fetchCount, searchCount, top_call>>
    /\ UNCHANGED <<searchVars, filterVars, proxyVars, saveVars, genVars>>

ResearchInit ==
    /\ max_depth \in 0..MaxDepth
    /\ visited_urls = {}
    /\ results = <<>>
    /\ stack = <<>>
    /\ ret = <<>>
    /\ raised = FALSE
    /\ runs = 0
    /\ fetchCount = [u \in GoodUrls |-> 0]
    /\ searchCount = 0
    /\ last = Step("init", "", 0, <<>>, Frame("", 0))
    /\ top_call = [query |-> "", depth |-> 0]

-----------------------------------------------------------------------------
(* _get_search_urls called on its own, over a wider set of result pages    *)

MaxLinks == 3    \* most anchors the primary selector matches

HrefSample == {NoHref, U1, U2, PdfUrl, MailUrl, RelUrl}

U5 == <<"http://", "h">>
U6 == <<"https://", "i">>

\* a selector's matches with more than 5 different URLs, one of them twice
LongPage == <<U3, U1, U3, U2, U4, U5, U6>>

SearchResponses ==
    FailedResponses \cup
    {Response(FALSE, 200, <<l1, l2, l3>>) :
        l1 \in SeqsUpTo(HrefSample, MaxLinks),
        l2 \in {<<>>, <<U3>>, <<MailUrl, U3, U3>>, LongPage},
        l3 \in {<<>>, <<U4, U1>>}}

\* self._get_search_urls(query), the request coming back with sResp
SearchCall ==
    /\ sPc = "idle"
    /\ sPc' = "done"
    /\ sOut' = GetSearchUrls(sResp)
    /\ UNCHANGED <<sResp, researchVars, filterVars, proxyVars, saveVars, genVars>>

SearchIdle == sPc = "idle" /\ sResp = Response(FALSE, 0, <<>>) /\ sOut = <<>>

-----------------------------------------------------------------------------
(* ProxyHandler                                                            *)

\* self.proxies, in pool order
proxies == <<"p1", "p2", "p3", "p4", "p5">>

Pool == {proxies[k] : k \in 1..Len(proxies)}

MaxRetries == 3   \* largest max_retries explored
MaxSuccess == 2   \* cap of a proxy's success count

\* max that returns the last of the elements with the highest key
MaxByKeyLast(available, key) ==
    LET k == CHOOSE k \in 1..Len(available) :
                /\ \A m \in 1..Len(available) : key[available[m]] <= key[available[k]]
                /\ \A m \in (k + 1)..Len(available) : key[available[m]] < key[available[k]]
    IN  available[k]

\* max(available, key): the first element whose key no other exceeds
MaxByKey(available, key) ==
    LET k == CHOOSE k \in 1..Len(available) :
                /\ \A m \in 1..Len(available) : key[available[m]] <= key[available[k]]
                /\ \A m \in 1..(k - 1) : key[available[m]] < key[available[k]]
    IN  available[k]

\* the selection with the clear() of line 26 forgotten
GetNextProxyKeepsMarks(failed, counts) ==
    LET available == SelectSeq(proxies, LAMBDA p : p \notin failed)
    IN  IF available = <<>>
        THEN [proxy |-> MaxByKey(proxies, counts), failed |-> failed]
        ELSE [proxy |-> MaxByKey(available, counts), failed |-> failed]

\* _get_next_proxy: the proxy chosen and the failure marks it leaves
GetNextProxy(failed, counts) ==
    LET available == SelectSeq(proxies, LAMBDA p : p \notin failed)
    IN  IF available = <<>>
        THEN [proxy |-> MaxByKey(proxies, counts), failed |-> {}]
        ELSE [proxy |-> MaxByKey(available, counts), failed |-> failed]

\* mark_failed that forgets to record the proxy
MarkFailedForgets(failed, current) == failed

\* mark_failed: the failure marks it leaves (current_proxy becomes None)
MarkFailed(failed, current) ==
    IF current # None THEN failed \cup {current} ELSE failed

\* mark_success: the success counts it leaves
MarkSuccess(counts, current) ==
    IF current # None THEN [counts EXCEPT ![current] = @ + 1] ELSE counts

RECURSIVE Pow2(_)
Pow2(n) == IF n = 0 THEN 1 ELSE 2 * Pow2(n - 1)

Idle == pc \in {"idle", "returned", "raised"}

\* the locals and the result of a finished make_request are dropped
NoCall ==
    /\ attempt' = 0 /\ max_retries' = 0 /\ response' = None
    /\ used' = {} /\ usedSinceClear' = {} /\ delays' = <<>>

\* the record kept of a _get_next_proxy call
Selection(failed, counts, r) ==
    [made |-> TRUE, before |-> failed, counts |-> counts, proxy |-> r.proxy,
     after |-> r.failed]

\* get_proxy_dict() called on its own
GetProxyDict ==
    /\ Idle
    /\ LET r == GetNextProxy(failed_proxies, success_count)
       IN  /\ failed_proxies' = r.failed
           /\ current_proxy' = r.proxy
           /\ sel' = Selection(failed_proxies, success_count, r)
    /\ pc' = "idle" /\ NoCall
    /\ UNCHANGED success_count
    /\ UNCHANGED <<researchVars, searchVars, filterVars, saveVars, genVars>>

\* mark_success() called on its own
MarkSuccessCall ==
    /\ Idle
    /\ current_proxy # None => success_count[current_proxy] < MaxSuccess
    /\ success_count' = MarkSuccess(success_count, current_proxy)
    /\ pc' = "idle" /\ NoCall
    /\ UNCHANGED <<failed_proxies, current_proxy, sel>>
    /\ UNCHANGED <<researchVars, searchVars, filterVars, saveVars, genVars>>

\* mark_failed() called on its own
MarkFailedCall ==
    /\ Idle
    /\ failed_proxies' = MarkFailed(failed_proxies, current_proxy)
    /\ current_proxy' = None
    /\ pc' = "idle" /\ NoCall
    /\ UNCHANGED <<success_count, sel>>
    /\ UNCHANGED <<researchVars, searchVars, filterVars, saveVars, genVars>>

\* make_request(url, headers, n) is called: line 52, before the first attempt
MakeRequest(n) ==
    /\ Idle
    /\ pc' = "loop"
    /\ attempt' = 0
    /\ max_retries' = n
    /\ response' = None
    /\ used' = {}
    /\ usedSinceClear' = {}
    /\ delays' = <<>>
    /\ UNCHANGED <<failed_proxies, success_count, current_proxy, sel>>
    /\ UNCHANGED <<researchVars, searchVars, filterVars, saveVars, genVars>>

\* lines 53-73: one attempt; outcome is the HTTP status, "RequestException",
\* or "Exception" for any exception that is no RequestException
Attempt(outcome) ==
    /\ pc = "loop" /\ attempt < max_retries
    /\ LET r == GetNextProxy(failed_proxies, success_count)
           reset == r.failed # failed_proxies
       IN  /\ sel' = Selection(failed_proxies, success_count, r)
           /\ used' = used \cup {r.proxy}
           /\ usedSinceClear' = (IF reset THEN {} ELSE usedSinceClear) \cup {r.proxy}
           /\ IF outcome = "200"
              THEN /\ success_count[r.proxy] < MaxSuccess
                   /\ success_count' = MarkSuccess(success_count, r.proxy)
                   /\ failed_proxies' = r.failed
                   /\ current_proxy' = r.proxy
                   /\ response' = "200"
                   /\ pc' = "returned"
                   /\ UNCHANGED <<attempt, delays>>
              ELSE IF outcome = "Exception"
              THEN /\ failed_proxies' = r.failed
                   /\ current_proxy' = r.proxy
                   /\ pc' = "raised"
                   /\ UNCHANGED <<success_count, response, attempt, delays>>
              ELSE /\ failed_proxies' = MarkFailed(r.failed, r.proxy)
                   /\ current_proxy' = None
                   /\ delays' = Append(delays, Pow2(attempt))
                   /\ attempt' = attempt + 1
                   /\ UNCHANGED <<success_count, response, pc>>
    /\ UNCHANGED max_retries
    /\ UNCHANGED <<researchVars, searchVars, filterVars, saveVars, genVars>>

\* line 75: the loop is over
ReturnNone ==
    /\ pc = "loop" /\ attempt >= max_retries
    /\ response' = None
    /\ pc' = "returned"
    /\ UNCHANGED <<failed_proxies, success_count, current_proxy, attempt,
                   max_retries, sel, used, usedSinceClear, delays>>
    /\ UNCHANGED <<researchVars, searchVars, filterVars, saveVars, genVars>>

ProxyIdle ==
    /\ failed_proxies = {}
    /\ success_count = [p \in Pool |-> 0]
    /\ current_proxy = None
    /\ pc = "idle" /\ attempt = 0 /\ max_retries = 0 /\ response = None
    /\ sel = [made |-> FALSE, before |-> {}, counts |-> success_count,
              proxy |-> None, after |-> {}]
    /\ used = {} /\ usedSinceClear = {} /\ delays = <<>>

-----------------------------------------------------------------------------
(* DummyLLM.filter_content called on its own, twice in a row               *)

MaxTail == 3    \* characters after the long word of an input

Chars == {"a", " ", "\n"}

Pad(n) == [k \in 1..n |-> "a"]

\* texts around the truncation limit: optional leading space, a long word,
\* then any short text
FilterInputs ==
    {lead \o Pad(n) \o tail :
        lead \in {<<>>, <<" ">>},
        n \in {0} \cup ((MaxContentLen - 2)..MaxContentLen),
        tail \in SeqsUpTo(Chars, MaxTail)}

\* out = llm.filter_content(text)
FilterOnce ==
    /\ fPc = "idle"
    /\ fPc' = "once"
    /\ fOut' = FilterContent(fIn)
    /\ UNCHANGED <<fIn, fOut2, researchVars, searchVars, proxyVars, saveVars, genVars>>

\* llm.filter_content(out)
FilterTwice ==
    /\ fPc = "once"
    /\ fPc' = "twice"
    /\ fOut2' = FilterContent(fOut)
    /\ UNCHANGED <<fIn, fOut, researchVars, searchVars, proxyVars, saveVars, genVars>>

FilterIdle == fPc = "idle" /\ fIn = <<>> /\ fOut = <<>> /\ fOut2 = <<>>

-----------------------------------------------------------------------------
(* ResearchAgent.save_results, DummyLLM.summarize_results, utils           *)

MaxSaved == 3    \* most nodes in self.results when save_results is called

\* the replacement fields of the two templates (research_templates.py)
RESEARCH_TEMPLATE == {"query", "content", "sub_queries", "timestamp"}
SUMMARY_TEMPLATE == {"total_queries", "timestamp", "queries"}

\* template.format(**kwargs): the filled template, or KeyError when a field
\* of the template is given no argument
Format(template, kwargs) ==
    IF template \subseteq DOMAIN kwargs
    THEN [raised |-> FALSE, text |-> [f \in template |-> kwargs[f]]]
    ELSE [raised |-> TRUE, text |-> <<>>]

\* lines 187-193: the arguments save_results gives RESEARCH_TEMPLATE.format
ResearchArgs(result) ==
    [query |-> result.query,
     content |-> result.content,
     sub_queries |-> [k \in 1..Len(result.sub_queries) |-> result.sub_queries[k].query]]

\* lines 200-204
SummaryArgs(text, total) ==
    [timestamp |-> "now", total_queries |-> total, queries |-> text]

InvalidChars == {"<", ">", ":", "\"", "/", "\\", "|", "?", "*"}

MaxFilenameLen == 50

\* utils.sanitize_filename
SanitizeFilename(filename) ==
    LET kept == SelectSeq(filename, LAMBDA c : c \notin InvalidChars)
    IN  Take([k \in 1..Len(kept) |-> IF kept[k] = " " THEN "_" ELSE kept[k]],
             MaxFilenameLen)

SummaryItemLen == 200

\* DummyLLM.summarize_results: per result its query and the cut item texts
SummarizeResults(rs) ==
    [k \in 1..Len(rs) |->
        [query |-> rs[k].query,
         items |-> [m \in 1..Len(rs[k].content) |->
                       Take(rs[k].content[m].content, SummaryItemLen)]]]

\* the name of the summary file; a sanitized query never ends in ".md"
SummaryName == <<"summary.md">>

\* create_markdown_file(filepath, content): the file is created or overwritten
WriteFile(files, name, content) ==
    [n \in DOMAIN files \cup {name} |-> IF n = name THEN content ELSE files[n]]

\* queries whose file names meet (characters matter here: sequences)
SavedQueries == {<<"a", " ", "b">>, <<"a", "_", "b">>, <<"a", "?">>, <<"c">>}

\* self.results after research: nodes with content, each from its own URL
SavedResults ==
    {[k \in 1..Len(qs) |->
        [query |-> qs[k],
         content |-> <<[source |-> Ranking[k], content |-> <<"x", " ", "y">>]>>,
         sub_queries |-> IF k = 1 THEN <<EmptyNode(<<"c">>)>> ELSE <<>>]] :
     qs \in SeqsUpTo(SavedQueries, MaxSaved)}

\* lines 172-181: save_results is called; directory made, summary generated
SaveStart ==
    /\ svPc = "idle"
    /\ summary' = SummarizeResults(results)
    /\ documents' = <<>>
    /\ svIdx' = 1
    /\ svPc' = "loop"
    /\ UNCHANGED <<researchVars, searchVars, filterVars, proxyVars, genVars>>

\* lines 183-196: one iteration of the loop over self.results
SaveNode ==
    /\ svPc = "loop" /\ svIdx <= Len(results)
    /\ LET result == results[svIdx]
           filename == SanitizeFilename(result.query) \o <<".md">>
           content == Format(RESEARCH_TEMPLATE, ResearchArgs(result))
       IN  IF content.raised
           THEN /\ svPc' = "raised"
                /\ UNCHANGED <<svIdx, documents>>
           ELSE /\ documents' = WriteFile(documents, filename, content.text)
                /\ svIdx' = svIdx + 1
                /\ UNCHANGED svPc
    /\ UNCHANGED summary
    /\ UNCHANGED <<researchVars, searchVars, filterVars, proxyVars, genVars>>

\* lines 198-208: the summary file, then the return
SaveSummary ==
    /\ svPc = "loop" /\ svIdx > Len(results)
    /\ LET summary_content == Format(SUMMARY_TEMPLATE, SummaryArgs(summary, Len(results)))
       IN  IF summary_content.raised
           THEN /\ svPc' = "raised"
                /\ UNCHANGED documents
           ELSE /\ documents' = WriteFile(documents, SummaryName, summary_content.text)
                /\ svPc' = "done"
    /\ UNCHANGED <<svIdx, summary>>
    /\ UNCHANGED <<researchVars, searchVars, filterVars, proxyVars, genVars>>

SaveIdle == svPc = "idle" /\ svIdx = 0 /\ summary = <<>> /\ documents = <<>>

-----------------------------------------------------------------------------
(* DummyLLM.generate_sub_queries called on its own                         *)

\* str.lower() on the letters that occur
Lower(c) == CASE c = "C" -> "c" [] c = "D" -> "d" [] c = "W" -> "w" [] OTHER -> c

LowerAll(s) == [k \in 1..Len(s) |-> Lower(s[k])]

\* sub in s
Contains(s, sub) ==
    \E i \in 1..(Len(s) - Len(sub) + 1) : SubSeq(s, i, i + Len(sub) - 1) = sub

\* s.startswith(w)
StartsWith(s, w) == Len(w) <= Len(s) /\ SubSeq(s, 1, Len(w)) = w

RECURSIVE JoinWith(_, _)
\* sep.join(parts)
JoinWith(parts, sep) ==
    IF parts = <<>> THEN <<>>
    ELSE IF Len(parts) = 1 THEN parts[1]
    ELSE parts[1] \o sep \o JoinWith(Tail(parts), sep)

RECURSIVE CollapseFrom(_, _)
\* re.sub(r'\s+', ' ', s) from index i on
CollapseFrom(s, i) ==
    IF i > Len(s) THEN <<>>
    ELSE IF IsSpace(s[i]) THEN <<" ">> \o CollapseFrom(s, FirstFrom(s, i, FALSE))
    ELSE SubSeq(s, i, FirstFrom(s, i, TRUE) - 1) \o
         CollapseFrom(s, FirstFrom(s, i, TRUE))

\* line 40
CollapseSpaces(s) == CollapseFrom(s, 1)

\* line 41
RemoveQuotes(s) == SelectSeq(s, LAMBDA c : c \notin {"\"", "'"})

RECURSIVE SplitOn(_, _)
\* s.split(delimiter)
SplitOn(s, delimiter) ==
    IF Contains(s, delimiter)
    THEN LET i == CHOOSE i \in 1..Len(s) :
                     /\ SubSeq(s, i, i + Len(delimiter) - 1) = delimiter
                     /\ \A j \in 1..(i - 1) :
                            SubSeq(s, j, j + Len(delimiter) - 1) # delimiter
         IN  <<SubSeq(s, 1, i - 1)>> \o
             SplitOn(SubSeq(s, i + Len(delimiter), Len(s)), delimiter)
    ELSE <<s>>

\* s.strip()
Strip(s) ==
    LET b == FirstFrom(s, 1, FALSE)
    IN  IF b > Len(s) THEN <<>>
        ELSE LET e == CHOOSE e \in b..Len(s) :
                         ~IsSpace(s[e]) /\ \A j \in (e + 1)..Len(s) : IsSpace(s[j])
             IN  SubSeq(s, b, e)

\* line 45
Delimiters == <<<<".", " ">>, <<"?", " ">>, <<"!", " ">>, <<"\n">>>>

RECURSIVE Sentences(_, _)
\* lines 44-47: the parts of the text for each delimiter from the k-th on
Sentences(text, k) ==
    IF k > Len(Delimiters) THEN <<>>
    ELSE SplitOn(text, Delimiters[k]) \o Sentences(text, k + 1)

\* lines 62-63
KeyPhrases ==
    {<<"w", "h", "a", "t", " ", "i", "s">>,
     <<"h", "o", "w", " ", "t", "o">>,
     <<"w", "h", "y", " ", "d", "o", "e", "s">>,
     <<"e", "x", "p", "l", "a", "i", "n">>,
     <<"d", "i", "f", "f", "e", "r", "e", "n", "c", "e", " ", "b", "e", "t", "w", "e", "e", "n">>,
     <<"c", "o", "m", "p", "a", "r", "e">>,
     <<"d", "e", "f", "i", "n", "e">>}

\* line 73
QuestionWords ==
    {<<"w", "h", "a", "t">>,
     <<"h", "o", "w">>,
     <<"w", "h", "y">>,
     <<"w", "h", "e", "n">>,
     <<"w", "h", "e", "r", "e">>,
     <<"w", "h", "o">>}

MinWords == 4
MaxWords == 20

\* lines 58-67: the test a stripped sentence has to pass
Relevant(sentence, query) ==
    /\ MinWords <= Len(Split(sentence))
    /\ Len(Split(sentence)) <= MaxWords
    /\ \/ \E phrase \in KeyPhrases : Contains(LowerAll(sentence), phrase)
       \/ \E k \in 1..Len(Split(LowerAll(query))) :
              Contains(LowerAll(sentence), Split(LowerAll(query))[k])

\* lines 33-67: the set sub_queries
Candidates(query, content) ==
    LET combined_text == JoinWith([k \in 1..Len(content) |-> content[k].content], <<" ">>)
        text == RemoveQuotes(CollapseSpaces(combined_text))
        sentences == Sentences(text, 1)
    IN  {Strip(sentences[k]) : k \in {k \in 1..Len(sentences) :
                                         Relevant(Strip(sentences[k]), query)}}

\* the orders in which list(sub_queries) can enumerate the set: the order of
\* a set of str follows the hashes of the process, not the arguments
Orders(set) ==
    {o \in [1..Cardinality(set) -> set] : \A i, j \in DOMAIN o : o[i] = o[j] => i = j}

MaxSubQueries == 5

Prefix == <<"W", "h", "a", "t", " ", "i", "s", " ", "m", "e", "a", "n", "t", " ", "b", "y", ":", " ">>

\* lines 72-78
AsQuestion(sentence) ==
    IF \E w \in QuestionWords : StartsWith(LowerAll(sentence), w)
    THEN sentence
    ELSE Prefix \o sentence

\* lines 70-81, list(sub_queries) enumerating the set in this order
FinalQueries(order) ==
    [k \in 1..Len(Take(order, MaxSubQueries)) |-> AsQuestion(order[k])]

MaxPad == 92    \* longest word of a text

\* a statement of four words about the query, n + 9 characters long
LongSentence(n) == <<"c", "a", "t", "s", " ">> \o Pad(n) \o <<" ", "b", " ", "c">>

\* "what is a dog. Dogs bark"
DogText ==
    <<"w", "h", "a", "t", " ", "i", "s", " ", "a", " ", "d", "o", "g", ".", " ",
      "D", "o", "g", "s", " ", "b", "a", "r", "k">>

\* " 'Cats'  purr\n at night "
CatText ==
    <<" ", "'", "C", "a", "t", "s", "'", " ", " ", "p", "u", "r", "r", "\n", " ",
      "a", "t", " ", "n", "i", "g", "h", "t", " ">>

GenTexts ==
    {LongSentence(n) : n \in {1, MaxPad - 1, MaxPad}} \cup {DogText, CatText}

\* "cats", "Cats Dogs"
GenQueries == {<<"c", "a", "t", "s">>, <<"C", "a", "t", "s", " ", "D", "o", "g", "s">>}

\* the content lists of the calls: one or two items
GenContents ==
    {[k \in 1..Len(ts) |-> [source |-> Ranking[k], content |-> ts[k]]] :
        ts \in {<<t>> : t \in GenTexts} \cup
               {<<t, u>> : t \in GenTexts, u \in {DogText, CatText}}}

\* llm.generate_sub_queries(query, content)
GenerateSubQueries(order) ==
    /\ gPc = "idle"
    /\ gOut' = FinalQueries(order)
    /\ gPc' = "once"
    /\ UNCHANGED <<gQuery, gContent, gOut2>>
    /\ UNCHANGED <<researchVars, searchVars, filterVars, proxyVars, saveVars>>

\* the same call in another run of the program
GenerateAgain(order) ==
    /\ gPc = "once"
    /\ gOut2' = FinalQueries(order)
    /\ gPc' = "twice"
    /\ UNCHANGED <<gQuery, gContent, gOut>>
    /\ UNCHANGED <<researchVars, searchVars, filterVars, proxyVars, saveVars>>

GenIdle == gPc = "idle" /\ gQuery = <<>> /\ gContent = <<>> /\ gOut = <<>> /\ gOut2 = <<>>

-----------------------------------------------------------------------------
(* Specifications                                                          *)

\* the research agent
Init == ResearchInit /\ SearchIdle /\ FilterIdle /\ ProxyIdle /\ SaveIdle /\ GenIdle

\* the steps of the research() calls in progress
Running ==
    \/ \E resp \in ResearchResponses : SearchStep(resp)
    \/ \E o \in ExtractOutcomes, f \in BOOLEAN : UrlStep(o[1], o[2], f)
    \/ \E g \in GenerateOutcomes : GenerateStep(g)
    \/ RecurseStep
    \/ AssembleStep

Next ==
    \/ \E d \in {0, max_depth, max_depth + 1} : StartResearch(TopQuery(runs + 1), d)
    \/ Running

Spec == Init /\ [][Next]_vars

MaxLiveRuns == 1     \* top-level research() calls followed to their end

NextLive ==
    \/ /\ runs < MaxLiveRuns
       /\ \E d \in {0, max_depth, max_depth + 1} : StartResearch(TopQuery(runs + 1), d)
    \/ Running

\* the agent with its thread running: a call in progress takes its next
\* step (the collaborators return, the sleeps end)
SpecLive == Init /\ [][NextLive]_vars /\ WF_vars(Running)

ResearchIdle == ResearchInit /\ max_depth = 0

\* the search resolver on its own
InitSearch ==
    /\ ResearchIdle /\ FilterIdle /\ ProxyIdle /\ SaveIdle /\ GenIdle
    /\ sPc = "idle" /\ sResp \in SearchResponses /\ sOut = <<>>

NextSearch == SearchCall

SpecSearch == InitSearch /\ [][NextSearch]_vars

\* the proxy handler
InitProxy == ResearchIdle /\ SearchIdle /\ FilterIdle /\ ProxyIdle /\ SaveIdle /\ GenIdle

NextProxy ==
    \/ GetProxyDict
    \/ MarkSuccessCall
    \/ MarkFailedCall
    \/ \E n \in 0..MaxRetries : MakeRequest(n)
    \/ \E outcome \in {"200", "404", "RequestException", "Exception"} : Attempt(outcome)
    \/ ReturnNone

SpecProxy == InitProxy /\ [][NextProxy]_vars

\* the content filter on its own
InitFilter ==
    /\ ResearchIdle /\ SearchIdle /\ ProxyIdle /\ SaveIdle /\ GenIdle
    /\ fPc = "idle" /\ fIn \in FilterInputs /\ fOut = <<>> /\ fOut2 = <<>>

NextFilter ==
    \/ FilterOnce
    \/ FilterTwice

SpecFilter == InitFilter /\ [][NextFilter]_vars

\* persisting the results of a finished run
InitSave ==
    /\ SearchIdle /\ FilterIdle /\ ProxyIdle /\ SaveIdle /\ GenIdle
    /\ results \in SavedResults
    /\ max_depth = MaxDepth /\ stack = <<>> /\ raised = FALSE /\ runs = 1
    /\ visited_urls = {results[k].content[1].source : k \in 1..Len(results)}
    /\ fetchCount = [u \in GoodUrls |-> IF u \in visited_urls THEN 1 ELSE 0]
    /\ searchCount = Len(results)
    /\ ret = IF results = <<>> THEN <<EmptyNode(<<"c">>)>> ELSE <<results[Len(results)]>>
    /\ last = Step("init", "", 0, <<>>, Frame("", 0))
    /\ top_call = [query |-> "", depth |-> 0]

NextSave ==
    \/ SaveStart
    \/ SaveNode
    \/ SaveSummary

SpecSave == InitSave /\ [][NextSave]_vars

\* the sub-query generator on its own
InitGen ==
    /\ ResearchIdle /\ SearchIdle /\ FilterIdle /\ ProxyIdle /\ SaveIdle
    /\ gPc = "idle" /\ gQuery \in GenQueries /\ gContent \in GenContents
    /\ gOut = <<>> /\ gOut2 = <<>>

NextGen ==
    \/ \E order \in Orders(Candidates(gQuery, gContent)) : GenerateSubQueries(order)
    \/ \E order \in Orders(Candidates(gQuery, gContent)) : GenerateAgain(order)

SpecGen == InitGen /\ [][NextGen]_vars

-----------------------------------------------------------------------------
(* Properties of research()                                                *)

RECURSIVE NodesAt(_, _)
\* the nodes of a tree, each with its depth, the root being at depth d
NodesAt(node, d) ==
    {<<node, d>>} \cup
    UNION {NodesAt(node.sub_queries[k], d + 1) : k \in 1..Len(node.sub_queries)}

IsEmpty(node) == node.content = <<>> /\ node.sub_queries = <<>>

\* every node research() has handed out and that is still in the state
ReturnedNodes ==
    (IF ret = <<>> THEN {} ELSE {n[1] : n \in NodesAt(ret[1], 0)}) \cup
    (IF last.node = <<>> THEN {} ELSE {n[1] : n \in NodesAt(last.node[1], 0)}) \cup
    UNION {{n[1] : n \in NodesAt(results[k], 0)} : k \in 1..Len(results)} \cup
    UNION {UNION {{n[1] : n \in NodesAt(stack[k].sub_results[m], 0)} :
                    m \in 1..Len(stack[k].sub_results)} : k \in 1..Len(stack)}

\* the content lists being built or already appended to results
ContentLists ==
    [k \in 1..(Len(stack) + Len(results)) |->
        IF k <= Len(stack) THEN stack[k].content
        ELSE results[k - Len(stack)].content]

\* how many content items name url as their source
TimesSource(url) ==
    Cardinality({<<k, m>> \in (1..Len(ContentLists)) \X (1..UrlLimit) :
                    /\ m <= Len(ContentLists[k])
                    /\ ContentLists[k][m].source = url})

\* C1: across all research calls of one agent (recursive calls and
\* successive top-level calls), no URL is fetched more than once, and no URL
\* is the content source of more than one item: a URL resolved again for a
\* later query is skipped.
C1_NoUrlFetchedTwice ==
    \A url \in GoodUrls :
        /\ fetchCount[url] <= 1
        /\ (fetchCount[url] = 1) = (url \in visited_urls)
        /\ TimesSource(url) <= fetchCount[url]

\* a second top-level query resolves a URL the first one fetched, skips it,
\* and the URL is a source of an earlier node only
C1_Witness ==
    /\ runs = 2 /\ last.op = "skip" /\ stack # <<>>
    /\ \E k \in 1..Len(results) : results[k].content[1].source = Top.urls[Top.i - 1]

\* C2: a research call at depth >= max_depth returns the empty node and
\* makes no search and no extraction; in a returned tree every node at depth
\* max_depth is empty (and no call is active at such a depth).
C2_FloorInv ==
    /\ \A k \in 1..Len(stack) : stack[k].depth < max_depth
    /\ last.op = "floor" =>
          /\ last.depth >= max_depth
          /\ last.node = <<EmptyNode(last.query)>>
    /\ last.op \notin {"floor", "init"} => last.depth < max_depth
    /\ (stack = <<>> /\ ret # <<>>) =>
          \A n \in NodesAt(ret[1], top_call.depth) :
              n[2] >= max_depth => IsEmpty(n[1])

C2_FloorStep ==
    (last'.op = "floor" \/ last'.depth >= max_depth) =>
        /\ searchCount' = searchCount
        /\ fetchCount' = fetchCount
        /\ visited_urls' = visited_urls
        /\ results' = results

C2_DepthFloor == []C2_FloorInv /\ [][C2_FloorStep]_vars

\* a sub-query of a node with content hits the floor, below a call in progress
C2_Witness ==
    /\ last.op = "floor" /\ last.depth = max_depth /\ max_depth >= 1
    /\ stack # <<>> /\ Top.content # <<>>
    /\ Top.sub_results = <<EmptyNode(last.query)>>

Returned == last.op \in {"assemble", "empty", "error"}

\* C3 as stated: whenever an error was raised while a query was processed
\* (in search resolution, extraction, filtering or sub-query generation),
\* the call of that query returns the empty node, and no error leaves
\* research().
C3_AnyErrorEmptyNode ==
    /\ raised = FALSE
    /\ (Returned /\ (last.op = "error" \/ last.swallowed # {})) =>
          last.node = <<EmptyNode(last.query)>>

\* C3 amended: no error leaves research(), and the top-level call returns a
\* tree; an error in search resolution, filtering or sub-query generation
\* makes the call of that query return the empty node to its caller, which
\* goes on with its next sub-query; an error in the extraction of one URL
\* drops that URL only: every URL of the call that yielded text is in the
\* node the call assembles.
C3_FailureContained ==
    /\ raised = FALSE
    /\ (stack = <<>> /\ runs > 0) => ret # <<>>
    /\ \A k \in 1..Len(stack) :
          stack[k].pc = "recurse" =>
              /\ Len(stack[k].sub_results) = stack[k].j - 1
              /\ stack[k].j <= Len(Take(stack[k].generated, SubQueryLimit)) + 1
    /\ (Returned /\ (last.op = "error" \/ "search" \in last.swallowed)) =>
          last.node = <<EmptyNode(last.query)>>
    /\ last.op = "assemble" =>
          Len(last.node[1].content) =
              Len(Take(last.urls, UrlLimit)) - last.nskip - last.nempty
    /\ last.op = "error" =>
          IF stack = <<>> THEN ret = last.node
          ELSE /\ Top.pc = "recurse"
               /\ Top.depth = last.depth - 1
               /\ Top.sub_results[Len(Top.sub_results)] = EmptyNode(last.query)

\* the first sub-query of a node failed and its sibling is still to be explored
C3_Witness ==
    /\ last.op = "error" /\ stack # <<>>
    /\ Top.j = 2 /\ Len(Top.generated) >= 2

\* C9: in every node research() returns, at any depth, on success or on
\* failure, an empty content list comes with an empty sub_queries list.
C9_NoContentNoSubQueries ==
    \A n \in ReturnedNodes : n.content = <<>> => n.sub_queries = <<>>

\* a sub-query whose URLs yielded no text returned to a parent with content
C9_Witness ==
    /\ last.op = "empty" /\ last.urls # <<>> /\ stack # <<>>
    /\ Top.content # <<>>

Occurrences(node) == Cardinality({k \in 1..Len(results) : results[k] = node})

\* the scenario of C10: max_depth = 1, a top-level call at depth 0 whose
\* search resolved 3 URLs, none visited, 1 without text, 2 with text
C10_Scenario ==
    /\ max_depth = 1 /\ top_call.depth = 0 /\ stack = <<>>
    /\ last.op = "assemble"
    /\ Len(last.urls) = 3 /\ last.nskip = 0 /\ last.nempty = 1

C13_ResultsInv ==
    /\ \A k \in 1..Len(results) : results[k].content # <<>>
    /\ \A n \in ReturnedNodes : n.content # <<>> => Occurrences(n) = 1
    /\ \A k \in 1..Len(results) :
          \A m \in 1..Len(results[k].sub_queries) :
              results[k].sub_queries[m].content # <<>> =>
                  \E j \in 1..(k - 1) : results[j] = results[k].sub_queries[m]

\* C13, step part: a call that returns a node with content appends it at the
\* end of results at that moment; no other step changes results.
C13_ResultsStep ==
    IF last'.node # <<>> /\ last'.node[1].content # <<>>
    THEN results' = Append(results, last'.node[1])
    ELSE results' = results

\* C13: every node with content produced by research(), at any tree
\* position, is appended to results exactly once, in completion order (a
\* child before its parent); nodes without content are never appended.
C13_AppendedOnceInOrder == []C13_ResultsInv /\ [][C13_ResultsStep]_vars

\* a parent was appended after its first child, its second child being empty
C13_Witness ==
    /\ Len(results) >= 2 /\ last.op = "assemble"
    /\ Len(results[2].sub_queries) = 2
    /\ results[2].sub_queries[1] = results[1]
    /\ IsEmpty(results[2].sub_queries[2])

\* C14, state part: the calls in progress are nested one level apart, each
\* caller waiting in its sub-query loop for the call above it, and no deeper
\* than the floor allows.
C14_Nested ==
    /\ Len(stack) <= max_depth
    /\ \A k \in 1..(Len(stack) - 1) :
          /\ stack[k].depth = stack[k + 1].depth + 1
          /\ stack[k + 1].pc = "recurse"
          /\ stack[k].query = stack[k + 1].generated[stack[k + 1].j]

\* C14, step part: a call returns to its caller only after each of its
\* first two sub-queries has returned its node.
C14_ChildrenFirst ==
    (last'.op = "assemble" /\ stack # <<>>) =>
        /\ stack' = IF Len(stack) = 1 THEN <<>>
                    ELSE <<[stack[2] EXCEPT !.sub_results = Append(@, last'.node[1]),
                                            !.j = @ + 1]>> \o Tail(Tail(stack))
        /\ Len(last'.node[1].sub_queries) = Len(Take(Top.generated, SubQueryLimit))
        /\ \A k \in 1..Len(last'.node[1].sub_queries) :
              last'.node[1].sub_queries[k].query = Top.generated[k]

\* C14: every top-level research() call terminates, whatever the search,
\* the extractions and the sub-query generation answer (sub-queries equal to
\* an ancestor's query included), and every call completes its children
\* before it returns to its caller.
C14_Terminates ==
    /\ []C14_Nested
    /\ [][C14_ChildrenFirst]_vars
    /\ (stack # <<>>) ~> (stack = <<>>)

\* a finished call whose second sub-query repeated the top-level query and
\* was researched down to the floor
C14_Witness ==
    /\ stack = <<>> /\ ret # <<>> /\ max_depth = 2
    /\ Len(ret[1].sub_queries) = 2
    /\ ret[1].sub_queries[2].query = ret[1].query
    /\ Len(ret[1].sub_queries[2].sub_queries) = 2

\* the sources of a content list
Sources(content) == [k \in 1..Len(content) |-> content[k].source]

\* sub is urls with some entries left out, the order kept
IsSubsequence(sub, urls) ==
    \E idx \in [1..Len(sub) -> 1..Len(urls)] :
        /\ \A k \in 1..Len(sub) : sub[k] = urls[idx[k]]
        /\ \A k \in 1..(Len(sub) - 1) : idx[k] < idx[k + 1]

Max(a, b) == IF a >= b THEN a ELSE b

\* C15, state part: every node handed out has at most 3 content items and
\* at most 2 children; in a returned tree no node lies deeper than max_depth
\* (counted from the root, and as the depth argument of its call unless the
\* top-level call itself was made beyond max_depth).
C15_NodeBounds ==
    /\ \A n \in ReturnedNodes :
          /\ Len(n.content) <= 3
          /\ Len(n.sub_queries) <= 2
    /\ (stack = <<>> /\ ret # <<>>) =>
          /\ \A n \in NodesAt(ret[1], 0) : n[2] <= max_depth
          /\ \A n \in NodesAt(ret[1], top_call.depth) :
                n[2] <= Max(max_depth, top_call.depth)

\* C15, step part: the content of an assembled node comes from the first 3
\* URLs the search returned for its query, in that order, and its children
\* are the nodes of the first 2 generated sub-queries, in order.
C15_NodeShape ==
    (last'.op = "assemble" /\ stack # <<>>) =>
        LET node == last'.node[1]
        IN  /\ IsSubsequence(Sources(node.content), Take(Top.urls, 3))
            /\ node.query = Top.query
            /\ Len(node.sub_queries) = Len(Take(Top.generated, 2))
            /\ \A k \in 1..Len(node.sub_queries) :
                  /\ node.sub_queries[k].query = Top.generated[k]
                  /\ node.sub_queries[k] = Top.sub_results[k]

\* C15: in every tree research() returns, a node has at most 3 content
\* items, from the first 3 URLs of its query's search in the search's order,
\* and at most 2 children, the results of the first 2 generated sub-queries in
\* order; no node lies deeper than max_depth.
C15_TreeShape == []C15_NodeBounds /\ [][C15_NodeShape]_vars

\* a node was assembled from a search with 4 URLs: 3 content items, 2 children
C15_Witness ==
    /\ last.op = "assemble" /\ Len(last.urls) = 4
    /\ Len(last.node[1].content) = 3
    /\ Len(last.node[1].sub_queries) = 2
    /\ max_depth = 2 /\ last.depth = 0

\* C20, state part: every URL whose extraction was attempted is in
\* visited_urls, and no URL's extraction was attempted twice.
C20_VisitedInv ==
    \A url \in GoodUrls :
        /\ fetchCount[url] <= 1
        /\ fetchCount[url] = 1 => url \in visited_urls

\* C20, step part: visited_urls never loses a URL; the step that attempts
\* the extraction of a URL finds it unvisited and leaves it visited, also
\* when the extraction yields nothing; when a call yields no text, gathers no
\* content or fails, results stays as it is and the URLs the call has gone
\* through stay visited.
C20_VisitedStep ==
    /\ visited_urls \subseteq visited_urls'
    /\ \A url \in GoodUrls :
          fetchCount'[url] > fetchCount[url] =>
              url \notin visited_urls /\ url \in visited_urls'
    /\ last'.op \in {"nothing", "empty", "error"} =>
          /\ results' = results
          /\ stack # <<>> =>
                \A k \in 1..Len(Take(Top.urls, 3)) :
                    k <= Top.i => Top.urls[k] \in visited_urls'

\* C20: a URL is added to visited_urls before its extraction is attempted
\* and is never removed: not when the extraction yields nothing, and not
\* when the query's call fails later and returns the empty node; such a URL
\* is never fetched again by this agent, and the failed call's node is not
\* appended to results.
C20_NoRollback == []C20_VisitedInv /\ [][C20_VisitedStep]_vars

\* the first top-level call failed after one extraction without text and
\* one with text: both URLs are visited, results is empty
C20_Witness ==
    /\ last.op = "error" /\ stack = <<>> /\ runs = 1
    /\ last.nempty >= 1
    /\ Cardinality(visited_urls) >= 2
    /\ results = <<>>

-----------------------------------------------------------------------------
(* Properties of _get_search_urls                                          *)

\* C4: the search resolver never returns an empty list: whatever the
\* request came back with (no links, a non-200 status, an exception), the
\* result has at least one entry, and only http(s) URLs.
C4_NeverEmpty ==
    sPc = "done" =>
        /\ Len(sOut) >= 1
        /\ \A k \in 1..Len(sOut) : StartsWithHttp(sOut[k])

\* index of the first occurrence of url among a selector's matches
FirstIndex(hrefs, url) ==
    CHOOSE i \in 1..Len(hrefs) : hrefs[i] = url /\ \A j \in 1..(i - 1) : hrefs[j] # url

\* C18: the list _get_search_urls returns has at most 5 entries and no URL
\* twice; its entries start with http and contain none of '.pdf', '.doc',
\* 'javascript:', 'mailto:'; they are matches of one selector, in the order
\* of their first occurrence among these matches.
C18_ResolvedList ==
    sPc = "done" =>
        /\ Len(sOut) <= 5
        /\ \A a, b \in 1..Len(sOut) : sOut[a] = sOut[b] => a = b
        /\ \A a \in 1..Len(sOut) :
              /\ sOut[a][1] \in {"http://", "https://"}
              /\ \A i \in 1..Len(sOut[a]) :
                    sOut[a][i] \notin {".pdf", ".doc", "javascript:", "mailto:"}
        /\ sOut # <<>> =>
              \E k \in 1..Len(sResp.links) :
                  /\ \A a \in 1..Len(sOut) : \E i \in 1..Len(sResp.links[k]) :
                        sResp.links[k][i] = sOut[a]
                  /\ \A a, b \in 1..Len(sOut) :
                        a < b => FirstIndex(sResp.links[k], sOut[a]) <
                                 FirstIndex(sResp.links[k], sOut[b])

\* the second selector matched 7 links, 6 different URLs: 5 are returned
C18_Witness ==
    /\ sPc = "done" /\ Len(sResp.links) >= 2 /\ sResp.links[2] = LongPage
    /\ sOut = <<U3, U1, U2, U4, U5>>

-----------------------------------------------------------------------------
(* Properties of ProxyHandler                                              *)

Exhausted == pc = "returned" /\ response = None

\* C5 as stated: when make_request returns None after max_retries failed
\* attempts, every proxy one of these attempts went through is marked
\* failed.
C5_AllUsedMarked == Exhausted => used \subseteq failed_proxies

\* C5 amended: make_request returns None after exactly max_retries failed
\* attempts, and every proxy used since the failure marks were last cleared
\* by the selection during the call (every proxy used, if they were not
\* cleared) is marked failed.
C5_UsedSinceClearMarked ==
    Exhausted =>
        /\ attempt = max_retries
        /\ Len(delays) = max_retries
        /\ Cardinality(used) <= max_retries
        /\ usedSinceClear \subseteq failed_proxies
        /\ (max_retries > 0) => usedSinceClear # {}

\* three attempts failed, the marks were cleared before the last one
C5_Witness ==
    /\ Exhausted /\ max_retries = 3
    /\ Cardinality(used) = 3 /\ Cardinality(usedSinceClear) = 1

\* C6: a selection always yields a proxy of the pool; when every proxy is
\* marked failed at the call, all marks are cleared and the choice is made
\* from the whole pool (no proxy has a higher success count than the one
\* chosen); otherwise the marks stay and an unmarked proxy is chosen.
C6_SelectionNeverFails ==
    sel.made =>
        /\ sel.proxy \in Pool
        /\ IF sel.before = Pool
           THEN /\ sel.after = {}
                /\ \A p \in Pool : sel.counts[p] <= sel.counts[sel.proxy]
           ELSE /\ sel.after = sel.before
                /\ sel.proxy \notin sel.before

\* in the middle of a make_request every proxy was marked, and the next
\* attempt went through a proxy that has succeeded before
C6_Witness ==
    /\ sel.made /\ sel.before = Pool /\ pc = "loop" /\ attempt >= 1
    /\ sel.counts[sel.proxy] >= 1
    /\ failed_proxies = {sel.proxy}

\* position of a proxy in the pool
PoolIndex(p) == CHOOSE k \in 1..Len(proxies) : proxies[k] = p

\* the proxies a selection chooses from: those not marked failed at the
\* call, the whole pool when all are marked
SelectionCandidates(before) == IF before = Pool THEN Pool ELSE Pool \ before

\* C16: a selection never returns a proxy marked failed while some proxy is
\* not marked; of the candidates it returns one with the highest success
\* count, and of those the first in pool order.
C16_BestCandidate ==
    sel.made =>
        /\ sel.before # Pool => sel.proxy \notin sel.before
        /\ sel.proxy \in SelectionCandidates(sel.before)
        /\ \A p \in SelectionCandidates(sel.before) :
              /\ sel.counts[p] <= sel.counts[sel.proxy]
              /\ sel.counts[p] = sel.counts[sel.proxy] =>
                    PoolIndex(sel.proxy) <= PoolIndex(p)

\* a marked proxy has the highest count, and two unmarked proxies tie at a
\* count of at least 1: the first of the two is returned
C16_Witness ==
    /\ sel.made /\ sel.before # {} /\ sel.before # Pool
    /\ sel.counts[sel.proxy] >= 1
    /\ \E p \in sel.before : sel.counts[p] > sel.counts[sel.proxy]
    /\ \E q \in Pool \ (sel.before \cup {sel.proxy}) :
          sel.counts[q] = sel.counts[sel.proxy]

\* C17: make_request makes at most max_retries attempts; the backoff slept
\* before attempt i (counted from 0) has base 2^i; and no backoff is slept
\* when no attempt follows: a call that gives up has slept fewer times than
\* it has made attempts.
C17_BackoffSchedule ==
    /\ attempt <= max_retries
    /\ Len(delays) <= attempt
    /\ \A i \in 1..Len(delays) : delays[i] = Pow2(i)
    /\ (Exhausted /\ max_retries > 0) => Len(delays) < max_retries

-----------------------------------------------------------------------------
(* Properties of filter_content                                            *)

\* C7: filter_content is idempotent: filtering its own output changes
\* nothing.
C7_Idempotent == fPc = "twice" => fOut2 = fOut

\* C8: the output of filter_content has at most 1000 characters and no two
\* consecutive whitespace characters.
C8_BoundedAndCollapsed ==
    fPc # "idle" =>
        /\ Len(fOut) <= MaxContentLen
        /\ \A k \in 1..(Len(fOut) - 1) : ~(IsSpace(fOut[k]) /\ IsSpace(fOut[k + 1]))

\* a text longer than the limit with a whitespace run is cut to the limit
C8_Witness ==
    /\ fPc = "once"
    /\ Len(fIn) > MaxContentLen /\ Len(fOut) = MaxContentLen
    /\ \E k \in 1..(Len(fIn) - 1) : IsSpace(fIn[k]) /\ IsSpace(fIn[k + 1])

-----------------------------------------------------------------------------
(* Properties of save_results                                              *)

\* C11: save_results never raises, and when it has returned the output
\* directory holds one document per node of self.results plus the summary.
C11_SaveAlwaysWrites ==
    /\ svPc # "raised"
    /\ svPc = "done" => Cardinality(DOMAIN documents) = Len(results) + 1

-----------------------------------------------------------------------------
(* Properties of generate_sub_queries                                      *)

Ellipsis == <<".", ".", ".">>

\* the sentence embedded in a sub-query: what follows the prefix, if any
Embedded(item) ==
    IF StartsWith(item, Prefix) THEN SubSeq(item, Len(Prefix) + 1, Len(item)) ELSE item

\* C12: the sentence embedded in every sub-query generate_sub_queries
\* returns has at most 100 characters, or is a sentence cut to 100 characters
\* followed by the ellipsis.
C12_EmbeddedAtMost100 ==
    gPc # "idle" =>
        \A k \in 1..Len(gOut) :
            LET e == Embedded(gOut[k])
            IN  \/ Len(e) <= 100
                \/ /\ Len(e) = 100 + Len(Ellipsis)
                   /\ SubSeq(e, 101, Len(e)) = Ellipsis

\* C19: generate_sub_queries is a function of its arguments: the same call
\* in another run of the program returns the same sub-queries in the same
\* order (and so research() explores the same first two sub-queries).
C19_SameOutput == gPc = "twice" => gOut2 = gOut

====
